---- MODULE Spec2Model ----
(***************************************************************************)
(* QuickFileCreator: a hotkey opens a prompt; the entered name is         *)
(* validated (file_creator.is_valid_name), the directory of the active    *)
(* file-manager window is resolved (explorer.get_current_path) and the    *)
(* entry is created there (file_creator.create_item).                     *)
(*                                                                         *)
(* Strings are sequences of one-character strings (a few path tokens such *)
(* as "C:" or "Desktop" are kept whole).  A path is a sequence of          *)
(* components, each component a sequence of characters.                    *)
(***************************************************************************)
EXTENDS Naturals, Sequences, FiniteSets, TLC

VARIABLES
    name,          \* SpecName: the string handed to the classifier
    extResult,     \* SpecName: <<r>> once has_extension returned r, else <<>>
    validResult,   \* SpecName: <<r>> once is_valid_name returned r, else <<>>
    dirs,          \* filesystem: the set of paths that are directories
    files,         \* filesystem: the set of paths that are files
    readonly,      \* filesystem: directories in which creation is denied
    phase,         \* SpecCreate / SpecResolve: "ready" or "returned"
    call,          \* SpecCreate: arguments and pre-state of the create_item call
    outcome,       \* SpecCreate: what create_item returned
    wins,          \* desktop: the top-level windows, in EnumWindows order
    fg,            \* desktop: HWND of the foreground window
    shellWins,     \* desktop: the Shell.Application.Windows() collection
    failAt,        \* SpecResolve: the platform call that raised, or "none"
    explorerPath,  \* SpecResolve: what get_explorer_path returned
    currentPath,   \* SpecResolve: what get_current_path returned
    window_thread, \* SpecApp: QuickFileCreator.window_thread (0 for None)
    threads,       \* SpecApp: the prompt threads ever made, by number
    handlers,      \* SpecApp: the on_hotkey invocations in progress
    entered        \* SpecApp: the last _on_enter that ran to its end: the name
                   \* read from the entry and the filesystem calls it made

nameVars == <<name, extResult, validResult>>

fsVars == <<dirs, files, readonly>>

createVars == <<phase, call, outcome>>

deskVars == <<wins, fg, shellWins>>

resolveVars == <<failAt, explorerPath, currentPath>>

appVars == <<window_thread, threads, handlers, entered>>

vars == <<nameVars, fsVars, createVars, deskVars, resolveVars, appVars>>

-----------------------------------------------------------------------------
(* Bounds *)

MaxLen == 3

MaxWins == 3

MaxThreads == 3

MaxHandlers == 2

-----------------------------------------------------------------------------
(* Strings *)

NameChars == {"a", ".", " ", "/", "<"}

RECURSIVE SeqsUpTo(_, _)
SeqsUpTo(S, n) ==
    IF n = 0 THEN {<<>>}
    ELSE LET shorter == SeqsUpTo(S, n - 1)
         IN  shorter \cup {Append(s, c) : s \in {t \in shorter : Len(t) = n - 1}, c \in S}

Names == SeqsUpTo(NameChars, MaxLen)

Contains(s, c) == \E i \in 1..Len(s) : s[i] = c

StartsWith(s, c) == Len(s) > 0 /\ s[1] = c

EndsWith(s, c) == Len(s) > 0 /\ s[Len(s)] = c

IsSpace(c) == c = " "

\* str.strip(): drop leading and trailing whitespace
Strip(s) ==
    LET keep == {i \in 1..Len(s) : ~IsSpace(s[i])}
    IN  IF keep = {} THEN <<>>
        ELSE LET lo == CHOOSE i \in keep : \A j \in keep : i <= j
                 hi == CHOOSE i \in keep : \A j \in keep : j <= i
             IN  SubSeq(s, lo, hi)

-----------------------------------------------------------------------------
(* file_creator.has_extension *)

has_extension_no_startswith(n) == Contains(n, ".") /\ ~EndsWith(n, ".")

has_extension(n) == Contains(n, ".") /\ ~EndsWith(n, ".") /\ ~StartsWith(n, ".")

-----------------------------------------------------------------------------
(* file_creator.is_valid_name *)

invalid_chars == <<"<", ">", ":", "\"", "/", "\\", "|", "?", "*">>

Valid == [ok |-> TRUE, char |-> "None"]

Invalid(c) == [ok |-> FALSE, char |-> c]

\* the loop "for char in invalid_chars: if char in name: return False, ..."
RECURSIVE ScanInvalid(_, _)
ScanInvalid(n, i) ==
    IF i > Len(invalid_chars) THEN Valid
    ELSE IF Contains(n, invalid_chars[i]) THEN Invalid(invalid_chars[i])
    ELSE ScanInvalid(n, i + 1)

\* a scan over the name instead of over invalid_chars
RECURSIVE ScanName(_, _)
ScanName(n, i) ==
    IF i > Len(n) THEN Valid
    ELSE IF Contains(invalid_chars, n[i]) THEN Invalid(n[i])
    ELSE ScanName(n, i + 1)

is_valid_name_leftmost(n) == ScanName(n, 1)

is_valid_name(n) == ScanInvalid(n, 1)

-----------------------------------------------------------------------------
(* Paths and the filesystem *)

IsSep(c) == c = "/" \/ c = "\\"

\* a finished component joins the path; empty and "." components are dropped,
\* as pathlib does when it parses a path
Flush(acc, cur) == IF cur = <<>> \/ cur = <<".">> THEN acc ELSE Append(acc, cur)

RECURSIVE SplitAcc(_, _, _)
SplitAcc(s, cur, acc) ==
    IF s = <<>> THEN Flush(acc, cur)
    ELSE IF IsSep(Head(s)) THEN SplitAcc(Tail(s), <<>>, Flush(acc, cur))
    ELSE SplitAcc(Tail(s), Append(cur, Head(s)), acc)

\* Path(s): the components of a path string, the drive first
Path(s) == SplitAcc(s, <<>>, <<>>)

\* Path(base) / n: a name that starts with a separator is taken from the root
PathDiv(p, n) ==
    IF n # <<>> /\ IsSep(n[1]) /\ p # <<>> THEN <<p[1]>> \o Path(n)
    ELSE p \o Path(n)

Parent(p) == IF Len(p) <= 1 THEN p ELSE SubSeq(p, 1, Len(p) - 1)

Prefix(p, k) == SubSeq(p, 1, k)

Exists(D, F, p) == p \in D \cup F

IsDir(D, p) == p \in D

\* Path.mkdir(parents=True, exist_ok=True) on p.  The missing directories are
\* made from the outermost inwards; `fault` = i > 0 makes the i-th creation of
\* the call raise an OSError (disk full, invalid path).  Returns the new set
\* of directories, the error raised ("ok" for none) and the creations done.
MkdirParents(D, F, RO, p, fault) ==
    IF p \in D THEN [dirs |-> D, err |-> "ok", steps |-> 0]
    ELSE IF (\E k \in 1..Len(p) : Prefix(p, k) \in F) \/ Prefix(p, 1) \notin D
    THEN [dirs |-> D, err |-> "other", steps |-> 0]
    ELSE LET k0 == CHOOSE k \in 1..Len(p) :
                      /\ Prefix(p, k) \notin D
                      /\ \A j \in 1..(k - 1) : Prefix(p, j) \in D
             n == Len(p) - k0 + 1
         IN  IF Prefix(p, k0 - 1) \in RO
             THEN [dirs |-> D, err |-> "perm", steps |-> 0]
             ELSE IF fault \in 1..n
             THEN [dirs  |-> D \cup {Prefix(p, k) : k \in k0..(k0 + fault - 2)},
                   err   |-> "other",
                   steps |-> fault - 1]
             ELSE [dirs |-> D \cup {Prefix(p, k) : k \in k0..Len(p)},
                   err |-> "ok", steps |-> n]

\* Path.touch() on p, whose parent is a directory
Touch(D, F, RO, p, fault) ==
    IF Parent(p) \in RO THEN [files |-> F, err |-> "perm"]
    ELSE IF fault = 1 THEN [files |-> F, err |-> "other"]
    ELSE [files |-> F \cup {p}, err |-> "ok"]

-----------------------------------------------------------------------------
(* file_creator.create_item *)

Result(D, F, ok, msg, n, steps) ==
    [dirs |-> D, files |-> F, ok |-> ok, msg |-> msg, name |-> n, steps |-> steps]

ErrMsg(err) == IF err = "perm" THEN "no_permission" ELSE "create_failed"

\* the file branch: full.parent.mkdir(parents=True, exist_ok=True); full.touch()
CreateFile(D, F, RO, full, n, fault) ==
    LET m == MkdirParents(D, F, RO, Parent(full), fault)
    IN  IF m.err # "ok" THEN Result(m.dirs, F, FALSE, ErrMsg(m.err), n, m.steps)
        ELSE LET t == Touch(m.dirs, F, RO, full,
                            IF fault > m.steps THEN fault - m.steps ELSE 0)
             IN  IF t.err # "ok"
                 THEN Result(m.dirs, F, FALSE, ErrMsg(t.err), n, m.steps)
                 ELSE Result(m.dirs, t.files, TRUE, "file_created", n, m.steps + 1)

\* the directory branch: full.mkdir(parents=True, exist_ok=True)
CreateDir(D, F, RO, full, n, fault) ==
    LET m == MkdirParents(D, F, RO, full, fault)
    IN  IF m.err # "ok" THEN Result(m.dirs, F, FALSE, ErrMsg(m.err), n, m.steps)
        ELSE Result(m.dirs, F, TRUE, "dir_created", n, m.steps)

\* the existence pre-check left out
create_item_no_exists_check(D, F, RO, base_path, nm, fault) ==
    IF Strip(nm) = <<>> THEN Result(D, F, FALSE, "empty_name", <<>>, 0)
    ELSE LET n == Strip(nm)
             full == PathDiv(Path(base_path), n)
         IN  IF has_extension(n) THEN CreateFile(D, F, RO, full, n, fault)
             ELSE CreateDir(D, F, RO, full, n, fault)

\* the two branches swapped
create_item_swapped(D, F, RO, base_path, nm, fault) ==
    IF Strip(nm) = <<>> THEN Result(D, F, FALSE, "empty_name", <<>>, 0)
    ELSE LET n == Strip(nm)
             full == PathDiv(Path(base_path), n)
         IN  IF Exists(D, F, full) THEN Result(D, F, FALSE, "exists", n, 0)
             ELSE IF has_extension(n) THEN CreateDir(D, F, RO, full, n, fault)
             ELSE CreateFile(D, F, RO, full, n, fault)

create_item(D, F, RO, base_path, nm, fault) ==
    IF Strip(nm) = <<>> THEN Result(D, F, FALSE, "empty_name", <<>>, 0)
    ELSE LET n == Strip(nm)
             full == PathDiv(Path(base_path), n)
         IN  IF Exists(D, F, full) THEN Result(D, F, FALSE, "exists", n, 0)
             ELSE IF has_extension(n) THEN CreateFile(D, F, RO, full, n, fault)
             ELSE CreateDir(D, F, RO, full, n, fault)

-----------------------------------------------------------------------------
(* SpecName: the two name checks applied to every bounded name *)

NoCall == [base |-> <<>>, name |-> <<>>, fault |-> 0, dirs0 |-> {}, files0 |-> {}]

NoOutcome == [ok |-> FALSE, msg |-> "unset", name |-> <<>>]

None == [some |-> FALSE, path |-> <<>>]

Some(p) == [some |-> TRUE, path |-> p]

IdleName == name = <<>> /\ extResult = <<>> /\ validResult = <<>>

IdleFs == dirs = {} /\ files = {} /\ readonly = {}

IdleCreate == call = NoCall /\ outcome = NoOutcome

IdleDesk == wins = <<>> /\ fg = 0 /\ shellWins = <<>>

IdleResolve == failAt = "none" /\ explorerPath = None /\ currentPath = <<>>

NoThread == [pc |-> "none", name |-> <<>>, current_path |-> <<>>, access |-> {}]

NoEnter == [done |-> FALSE, name |-> <<>>, access |-> {}]

IdleHandler == [pc |-> "idle", t |-> 0]

IdleApp == window_thread = 0 /\ threads = <<>> /\ handlers = <<>> /\ entered = NoEnter

InitName ==
    /\ name \in Names
    /\ extResult = <<>>
    /\ validResult = <<>>
    /\ phase = "ready"
    /\ IdleFs /\ IdleCreate /\ IdleDesk /\ IdleResolve /\ IdleApp

HasExtension ==
    /\ extResult = <<>>
    /\ extResult' = <<has_extension(name)>>
    /\ UNCHANGED <<name, validResult, fsVars, createVars, deskVars, resolveVars, appVars>>

IsValidName ==
    /\ validResult = <<>>
    /\ validResult' = <<is_valid_name(name)>>
    /\ UNCHANGED <<name, extResult, fsVars, createVars, deskVars, resolveVars, appVars>>

NextName == HasExtension \/ IsValidName

SpecName == InitName /\ [][NextName]_vars

-----------------------------------------------------------------------------
(* SpecCreate: one create_item call in every bounded filesystem *)

CRoot == <<<<"C:">>>>

BaseStr == <<"C:", "\\", "d">>

SubBaseStr == <<"C:", "\\", "d", "\\", "a">>

BaseStrs == {BaseStr, SubBaseStr}

BaseP == Path(BaseStr)

EntryA == Append(BaseP, <<"a">>)

EntryAA == Append(BaseP, <<"a", ".", "a">>)

EntryG == Append(EntryA, <<"a">>)

Kinds == {"none", "file", "dir"}

\* the base directory exists; below it each of a, a.a and a/a is missing, a
\* file or a directory
EnvOf(ro, ka, kaa, kg) ==
    [dirs     |-> {CRoot, BaseP}
                    \cup (IF ka = "dir" THEN {EntryA} ELSE {})
                    \cup (IF kaa = "dir" THEN {EntryAA} ELSE {})
                    \cup (IF kg = "dir" THEN {EntryG} ELSE {}),
     files    |-> (IF ka = "file" THEN {EntryA} ELSE {})
                    \cup (IF kaa = "file" THEN {EntryAA} ELSE {})
                    \cup (IF kg = "file" THEN {EntryG} ELSE {}),
     readonly |-> IF ro THEN {BaseP} ELSE {}]

Envs ==
    {[dirs |-> {CRoot}, files |-> {}, readonly |-> {}],
     [dirs |-> {CRoot}, files |-> {BaseP}, readonly |-> {}]}
    \cup {EnvOf(t[1], t[2], t[3], t[4]) :
            t \in {u \in BOOLEAN \X Kinds \X Kinds \X Kinds :
                      u[4] = "none" \/ u[2] = "dir"}}

\* ".." components are resolved by the operating system and are left out
CreateNames == {n \in Names : \A i \in 1..Len(Path(Strip(n))) : Path(Strip(n))[i] # <<".", ".">>}

InitCreate ==
    /\ IdleName /\ IdleDesk /\ IdleResolve /\ IdleApp
    /\ \E e \in Envs :
          /\ dirs = e.dirs
          /\ files = e.files
          /\ readonly = e.readonly
    /\ phase = "ready"
    /\ call = NoCall
    /\ outcome = NoOutcome

CreateItemCall(b, n, f) ==
    /\ \E r \in {create_item(dirs, files, readonly, b, n, f)} :
          /\ dirs' = r.dirs
          /\ files' = r.files
          /\ outcome' = [ok |-> r.ok, msg |-> r.msg, name |-> r.name]
    /\ call' = [base |-> b, name |-> n, fault |-> f, dirs0 |-> dirs, files0 |-> files]
    /\ phase' = "returned"
    /\ UNCHANGED <<nameVars, readonly, deskVars, resolveVars, appVars>>

NextCreate ==
    /\ phase = "ready"
    /\ \E b \in BaseStrs, n \in CreateNames :
          \E f \in 0..create_item(dirs, files, readonly, b, n, 0).steps :
              CreateItemCall(b, n, f)

SpecCreate == InitCreate /\ [][NextCreate]_vars

-----------------------------------------------------------------------------
(* explorer.get_explorer_path, get_all_explorer_windows, get_current_path *)

ExplorerExe == <<"C:", "\\", "Windows", "\\", "Explorer.EXE">>

NotepadExe == <<"C:", "\\", "Windows", "\\", "notepad.exe">>

\* str.lower() on the tokens of an executable path
LowerTok(t) ==
    CASE t = "Explorer.EXE" -> "explorer.exe"
      [] t = "Windows" -> "windows"
      [] t = "C:" -> "c:"
      [] OTHER -> t

Lower(s) == [i \in 1..Len(s) |-> LowerTok(s[i])]

\* "explorer.exe" in path.lower()
IsExplorerProcess(path) == Contains(Lower(path), "explorer.exe")

\* the first Item(i) of the collection whose HWND is hwnd
ShellMatch(sw, hwnd) ==
    LET hits == {i \in 1..Len(sw) : sw[i].HWND = hwnd}
    IN  IF hits = {} THEN 0 ELSE CHOOSE i \in hits : \A j \in hits : i <= j

RECURSIVE RemoveTok(_, _)
RemoveTok(s, t) ==
    IF s = <<>> THEN <<>>
    ELSE IF Head(s) = t THEN RemoveTok(Tail(s), t)
    ELSE <<Head(s)>> \o RemoveTok(Tail(s), t)

\* urllib.parse.unquote on one token
UnquoteTok(t) == IF t = "%20" THEN " " ELSE t

\* LocationURL.replace("file:///", ""), unquote, replace("/", "\\")
DecodeLocation(url) ==
    LET stripped == RemoveTok(url, "file:///")
        decoded == [i \in 1..Len(stripped) |-> UnquoteTok(stripped[i])]
    IN  [i \in 1..Len(decoded) |-> IF decoded[i] = "/" THEN "\\" ELSE decoded[i]]

\* the visibility test left out
get_all_explorer_windows_any(w) ==
    SelectSeq([i \in 1..Len(w) |-> i],
              LAMBDA h : w[h].cls \in {"CabinetWClass", "ExploreWClass"})

\* EnumWindows with the callback: the visible windows of the two classes
get_all_explorer_windows(w) ==
    SelectSeq([i \in 1..Len(w) |-> i],
              LAMBDA h : w[h].visible /\ w[h].cls \in {"CabinetWClass", "ExploreWClass"})

\* the loop over get_all_explorer_windows(): the first window with a match
RECURSIVE ScanBackground(_, _)
ScanBackground(hwnds, sw) ==
    IF hwnds = <<>> THEN None
    ELSE LET i == ShellMatch(sw, Head(hwnds))
         IN  IF i # 0 THEN Some(DecodeLocation(sw[i].LocationURL))
             ELSE ScanBackground(Tail(hwnds), sw)

\* lines 86-98: the fallback over every file-manager window
Fallback(w, sw, fail) ==
    IF fail = "enum" THEN None
    ELSE LET hwnds == get_all_explorer_windows(w)
         IN  IF hwnds # <<>> /\ fail = "shell_bg" THEN None
             ELSE ScanBackground(hwnds, sw)

\* a failure of the foreground step skipped instead of ending the call
get_explorer_path_fallthrough(w, f, sw, fail) ==
    IF fail = "foreground" THEN Fallback(w, sw, fail)
    ELSE IF IsExplorerProcess(w[f].exe)
    THEN IF fail = "shell_fg" THEN Fallback(w, sw, fail)
         ELSE LET i == ShellMatch(sw, f)
              IN  IF i # 0 THEN Some(DecodeLocation(sw[i].LocationURL))
                  ELSE Fallback(w, sw, fail)
    ELSE Fallback(w, sw, fail)

\* `fail` names the platform call that raises in this run:
\*   "foreground"  lines 51-63, "shell_fg" lines 68-80,
\*   "enum" line 148, "shell_bg" lines 88-94;
\* the one try/except (lines 46, 100-101) turns any of them into None
get_explorer_path(w, f, sw, fail) ==
    IF fail = "foreground" THEN None
    ELSE IF IsExplorerProcess(w[f].exe)
    THEN IF fail = "shell_fg" THEN None
         ELSE LET i == ShellMatch(sw, f)
              IN  IF i # 0 THEN Some(DecodeLocation(sw[i].LocationURL))
                  ELSE Fallback(w, sw, fail)
    ELSE Fallback(w, sw, fail)

Home == <<"C:", "\\", "u">>

\* os.path.join(os.path.expanduser('~'), 'Desktop')
get_desktop_path == Home \o <<"\\", "Desktop">>

\* the isdir test left out
get_current_path_unchecked(D, p) ==
    IF p.some /\ p.path # <<>> THEN p.path ELSE get_desktop_path

\* p is what get_explorer_path returned
get_current_path(D, p) ==
    IF p.some /\ p.path # <<>> /\ IsDir(D, Path(p.path)) THEN p.path
    ELSE get_desktop_path

-----------------------------------------------------------------------------
(* SpecResolve: one get_current_path call on every bounded desktop *)

UrlSpaced == <<"file:///", "C:", "/", "d", "%20", "d">>

UrlPlain == <<"file:///", "C:", "/", "d">>

UrlEmpty == <<>>

NoEntry == <<"no entry">>

\* the kinds of top-level window: other applications, the shell's own
\* desktop window, and file-manager windows (visible or hidden, of either
\* class, with or without an entry in the shell collection)
WindowKinds ==
    {[cls |-> "Notepad", visible |-> TRUE, exe |-> NotepadExe, url |-> NoEntry],
     [cls |-> "Progman", visible |-> TRUE, exe |-> ExplorerExe, url |-> NoEntry],
     [cls |-> "CabinetWClass", visible |-> TRUE, exe |-> ExplorerExe, url |-> UrlSpaced],
     [cls |-> "CabinetWClass", visible |-> TRUE, exe |-> ExplorerExe, url |-> UrlPlain],
     [cls |-> "ExploreWClass", visible |-> TRUE, exe |-> ExplorerExe, url |-> UrlPlain],
     [cls |-> "CabinetWClass", visible |-> FALSE, exe |-> ExplorerExe, url |-> UrlSpaced],
     [cls |-> "CabinetWClass", visible |-> TRUE, exe |-> ExplorerExe, url |-> NoEntry],
     [cls |-> "CabinetWClass", visible |-> TRUE, exe |-> ExplorerExe, url |-> UrlEmpty]}

Desktops == {w \in SeqsUpTo(WindowKinds, MaxWins) : w # <<>>}

\* the shell collection lists the windows that have an entry, here in the
\* reverse of the enumeration order
RECURSIVE ShellOf(_, _)
ShellOf(w, h) ==
    IF h = 0 THEN <<>>
    ELSE IF w[h].url = NoEntry THEN ShellOf(w, h - 1)
    ELSE <<[HWND |-> h, LocationURL |-> w[h].url]>> \o ShellOf(w, h - 1)

DirD == Path(<<"C:", "\\", "d">>)

DirSpaced == Path(<<"C:", "\\", "d", " ", "d">>)

DirHome == Path(Home)

DirDesktop == Path(get_desktop_path)

FailPoints == {"none", "foreground", "shell_fg", "enum", "shell_bg"}

InitResolve ==
    /\ IdleName /\ IdleCreate /\ IdleResolve /\ IdleApp
    /\ phase = "ready"
    /\ wins \in Desktops
    /\ fg \in 1..Len(wins)
    /\ shellWins = ShellOf(wins, Len(wins))
    /\ dirs \in {{CRoot, DirHome, DirDesktop, DirD},
                 {CRoot, DirHome, DirDesktop, DirD, DirSpaced}}
    /\ files = {}
    /\ readonly = {}

GetCurrentPath(fail) ==
    /\ phase = "ready"
    /\ failAt' = fail
    /\ explorerPath' = get_explorer_path(wins, fg, shellWins, fail)
    /\ currentPath' = get_current_path(dirs, get_explorer_path(wins, fg, shellWins, fail))
    /\ phase' = "returned"
    /\ UNCHANGED <<nameVars, fsVars, call, outcome, deskVars, appVars>>

NextResolve == \E fail \in FailPoints : GetCurrentPath(fail)

SpecResolve == InitResolve /\ [][NextResolve]_vars

-----------------------------------------------------------------------------
(* SpecApp: main.QuickFileCreator.on_hotkey, ui.show_quick_create and    *)
(* ui.QuickCreateWindow._on_enter / _on_escape, with the filesystem      *)
(* changing underneath                                                   *)

Placeholder == <<"PLACEHOLDER_TEXT">>

\* what the user may have typed when pressing Enter
UiNames == {<<>>, Placeholder, <<" ">>, <<"a">>, <<"a", ".", "a">>, <<"<">>}

Tids == 1..MaxThreads

Hids == 1..MaxHandlers

\* Thread.is_alive(): started and not yet finished
is_alive(t) == threads[t].pc \in {"prompt", "resolved"}

FreeTids == {t \in Tids : threads[t].pc = "none"}

Pending == {h \in Hids : handlers[h].pc = "checked"}

InitApp ==
    /\ IdleName /\ IdleCreate /\ IdleResolve
    /\ phase = "ready"
    /\ wins \in {<<[cls |-> "Notepad", visible |-> TRUE, exe |-> NotepadExe, url |-> NoEntry]>>,
                 <<[cls |-> "Notepad", visible |-> TRUE, exe |-> NotepadExe, url |-> NoEntry],
                   [cls |-> "CabinetWClass", visible |-> TRUE, exe |-> ExplorerExe,
                    url |-> UrlPlain]>>}
    /\ fg = 1
    /\ shellWins = ShellOf(wins, Len(wins))
    /\ dirs \in {{CRoot, DirHome, DirD, DirDesktop}, {CRoot, DirHome, DirD}}
    /\ files = {}
    /\ readonly = {}
    /\ window_thread = 0
    /\ threads = [t \in Tids |-> NoThread]
    /\ handlers = [h \in Hids |-> IdleHandler]
    /\ entered = NoEnter

\* get_current_path, line 179: os.path.isdir(path) runs when path is truthy
get_current_path_access(p) == IF p.some /\ p.path # <<>> THEN {"isdir"} ELSE {}

\* create_item, lines 72-98, r being what it returned: no filesystem call
\* before the empty-name return, full_path.exists() after it, and mkdir /
\* touch when the path does not exist
create_item_access(r) ==
    IF r.msg = "empty_name" THEN {}
    ELSE IF r.msg = "exists" THEN {"exists"}
    ELSE {"exists", "create"}

\* on_hotkey, line 77-78: the window thread is alive, return
HotkeyIgnored(h) ==
    /\ handlers[h].pc = "idle"
    /\ window_thread # 0 /\ is_alive(window_thread)
    /\ UNCHANGED vars

\* on_hotkey, line 77: no window thread, or it is not alive
HotkeyCheck(h) ==
    /\ handlers[h].pc = "idle"
    /\ ~(window_thread # 0 /\ is_alive(window_thread))
    /\ Cardinality(FreeTids) > Cardinality(Pending)
    /\ handlers' = [handlers EXCEPT ![h] = [pc |-> "checked", t |-> 0]]
    /\ UNCHANGED <<nameVars, fsVars, createVars, deskVars, resolveVars, window_thread, threads, entered>>

\* on_hotkey, line 82: self.window_thread = threading.Thread(...)
HotkeyAssign(h) ==
    /\ handlers[h].pc = "checked"
    /\ \E t \in FreeTids :
          /\ \A u \in FreeTids : t <= u
          /\ threads' = [threads EXCEPT ![t].pc = "created"]
          /\ window_thread' = t
          /\ handlers' = [handlers EXCEPT ![h] = [pc |-> "assigned", t |-> t]]
    /\ UNCHANGED <<nameVars, fsVars, createVars, deskVars, resolveVars, entered>>

\* on_hotkey, line 83: self.window_thread.start(); the thread runs
\* show_quick_create, which opens the prompt
HotkeyStart(h) ==
    /\ handlers[h].pc = "assigned"
    /\ threads' = [threads EXCEPT ![handlers[h].t].pc = "prompt"]
    /\ handlers' = [handlers EXCEPT ![h] = IdleHandler]
    /\ UNCHANGED <<nameVars, fsVars, createVars, deskVars, resolveVars, window_thread, entered>>

\* _on_escape, or a click outside the entry: the window closes
OnEscape(t) ==
    /\ threads[t].pc = "prompt"
    /\ threads' = [threads EXCEPT ![t] = [NoThread EXCEPT !.pc = "dead"]]
    /\ UNCHANGED <<nameVars, fsVars, createVars, deskVars, resolveVars, window_thread, handlers,
                   entered>>

\* _on_enter, lines 155-161 and 166-171: nothing typed, or an illegal name
OnEnterRejected(t, n) ==
    /\ threads[t].pc = "prompt"
    /\ ~(n # <<>> /\ n # Placeholder /\ is_valid_name(n).ok)
    /\ threads' = [threads EXCEPT ![t] = [NoThread EXCEPT !.pc = "dead"]]
    /\ entered' = [done |-> TRUE, name |-> n, access |-> {}]
    /\ UNCHANGED <<nameVars, fsVars, createVars, deskVars, resolveVars, window_thread, handlers>>

\* _on_enter, lines 155-163: a legal name; current_path = get_current_path()
OnEnterResolve(t, n, fail) ==
    /\ threads[t].pc = "prompt"
    /\ n # <<>> /\ n # Placeholder /\ is_valid_name(n).ok
    /\ threads' = [threads EXCEPT ![t] =
          [pc |-> "resolved", name |-> n,
           current_path |->
               get_current_path(dirs, get_explorer_path(wins, fg, shellWins, fail)),
           access |->
               get_current_path_access(get_explorer_path(wins, fg, shellWins, fail))]]
    /\ UNCHANGED <<nameVars, fsVars, createVars, deskVars, resolveVars, window_thread, handlers,
                   entered>>

\* _on_enter, lines 164-171: create_item(current_path, name), then the
\* window closes and the thread ends
OnEnterCreate(t) ==
    /\ threads[t].pc = "resolved"
    /\ \E f \in 0..create_item(dirs, files, readonly, threads[t].current_path,
                               threads[t].name, 0).steps :
          \E r \in {create_item(dirs, files, readonly,
                                threads[t].current_path, threads[t].name, f)} :
              /\ dirs' = r.dirs
              /\ files' = r.files
              /\ entered' = [done |-> TRUE, name |-> threads[t].name,
                             access |-> threads[t].access \cup create_item_access(r)]
    /\ threads' = [threads EXCEPT ![t] = [NoThread EXCEPT !.pc = "dead"]]
    /\ UNCHANGED <<nameVars, readonly, createVars, deskVars, resolveVars, window_thread, handlers>>

Below(p, q) == Len(q) >= Len(p) /\ Prefix(q, Len(p)) = p

\* another program removes a directory and what is in it
EnvRemoveDir(p) ==
    /\ p \in dirs
    /\ dirs' = {q \in dirs : ~Below(p, q)}
    /\ files' = {q \in files : ~Below(p, q)}
    /\ UNCHANGED <<nameVars, readonly, createVars, deskVars, resolveVars, appVars>>

NextApp ==
    \/ \E h \in Hids : HotkeyIgnored(h)
    \/ \E h \in Hids : HotkeyCheck(h)
    \/ \E h \in Hids : HotkeyAssign(h)
    \/ \E h \in Hids : HotkeyStart(h)
    \/ \E t \in Tids : OnEscape(t)
    \/ \E t \in Tids, n \in UiNames : OnEnterRejected(t, n)
    \/ \E t \in Tids, n \in UiNames, fail \in FailPoints : OnEnterResolve(t, n, fail)
    \/ \E t \in Tids : OnEnterCreate(t)
    \/ \E p \in {DirD, DirDesktop} : EnvRemoveDir(p)

SpecApp == InitApp /\ [][NextApp]_vars

-----------------------------------------------------------------------------
(* Claims about the name checks (SpecName) *)

InteriorDot(n) == \E i \in 1..Len(n) : i # 1 /\ i # Len(n) /\ n[i] = "."

Reserved(c) == c \in {"<", ">", ":", "\"", "/", "\\", "|", "?", "*"}

ReservedAt(n) == {i \in 1..Len(n) : Reserved(n[i])}

Leftmost(n) == CHOOSE i \in ReservedAt(n) : \A j \in ReservedAt(n) : i <= j

RankOf(c) == CHOOSE k \in 1..Len(invalid_chars) : invalid_chars[k] = c

\* C4 as stated: has_extension(name) is True exactly when the name has a '.'
\* at an index other than 0 and other than len(name)-1.
C4_Original == extResult # <<>> => (extResult[1] <=> InteriorDot(name))

\* C4 amended: has_extension(name) is True exactly when the name has a '.'
\* at an interior index and neither its first nor its last character is a
\* '.'; a name that starts or ends with a dot is a directory even when it
\* has a further interior dot.
C4_Amended ==
    extResult # <<>> =>
        (extResult[1] <=> (/\ InteriorDot(name)
                           /\ name[1] # "."
                           /\ name[Len(name)] # "."))

\* a name with a leading dot and an interior dot was classified a directory
C4_Witness ==
    /\ extResult = <<FALSE>>
    /\ InteriorDot(name)
    /\ name[1] = "."
    /\ name[Len(name)] # "."

\* C5 as stated: a name with a reserved character fails, reporting the
\* reserved character with the smallest index in the name; a name with none
\* is valid.
C5_Original ==
    validResult # <<>> =>
        IF ReservedAt(name) = {} THEN validResult[1] = [ok |-> TRUE, char |-> "None"]
        ELSE /\ ~validResult[1].ok
             /\ validResult[1].char = name[Leftmost(name)]

\* C5 amended: a name with a reserved character fails, reporting, of the
\* reserved characters that occur in the name, the one that comes first in
\* the order < > : " / \ | ? * (wherever it stands in the name); a name with
\* none is valid with no error.
C5_Amended ==
    validResult # <<>> =>
        IF ReservedAt(name) = {} THEN validResult[1] = [ok |-> TRUE, char |-> "None"]
        ELSE /\ ~validResult[1].ok
             /\ \E i \in ReservedAt(name) : name[i] = validResult[1].char
             /\ \A i \in ReservedAt(name) : RankOf(validResult[1].char) <= RankOf(name[i])

\* a name with two reserved characters, where the reported one is not the
\* leftmost
C5_Witness ==
    /\ validResult # <<>>
    /\ ~validResult[1].ok
    /\ ReservedAt(name) # {}
    /\ validResult[1].char # name[Leftmost(name)]

-----------------------------------------------------------------------------
(* Claims about create_item (SpecCreate) *)

Returned == phase = "returned"

CallBase == Path(call.base)

CallFull == PathDiv(CallBase, Strip(call.name))

Unchanged == dirs = call.dirs0 /\ files = call.files0

C2_AllOrNothing == (Returned /\ ~outcome.ok) => Unchanged

\* C3: in an existing writable base directory, a legal name with no entry
\* at base/trim(name), and no filesystem error raised, create_item adds
\* exactly one entry, base/trim(name): an empty file when has_extension
\* accepts the trimmed name, a directory otherwise; the outcome is a success
\* naming the entry and that kind; nothing else is added or removed.
C3_CreatesOne ==
    (/\ Returned
     /\ call.fault = 0
     /\ CallBase \in call.dirs0 \ readonly
     /\ call.name # <<>>
     /\ ReservedAt(call.name) = {}
     /\ ~Exists(call.dirs0, call.files0, CallFull))
    => (/\ outcome.ok
        /\ outcome.name = Strip(call.name)
        /\ CallFull = Append(CallBase, Strip(call.name))
        /\ CallFull \notin call.dirs0 \cup call.files0
        /\ IF has_extension(Strip(call.name))
           THEN /\ outcome.msg = "file_created"
                /\ files = call.files0 \cup {CallFull}
                /\ dirs = call.dirs0
           ELSE /\ outcome.msg = "dir_created"
                /\ dirs = call.dirs0 \cup {CallFull}
                /\ files = call.files0)

\* a file was created by a successful call in a writable base directory
C3_Witness ==
    /\ Returned
    /\ call.fault = 0
    /\ CallBase \in call.dirs0 \ readonly
    /\ ReservedAt(call.name) = {}
    /\ outcome.ok
    /\ outcome.msg = "file_created"
    /\ CallFull \in files \ call.files0

-----------------------------------------------------------------------------
(* Claims about the resolver (SpecResolve) *)

FileManagerClass(w) == w.cls = "CabinetWClass" \/ w.cls = "ExploreWClass"

HasEntry(h) == \E i \in 1..Len(shellWins) : shellWins[i].HWND = h

EntryUrl(h) == shellWins[CHOOSE i \in 1..Len(shellWins) : shellWins[i].HWND = h].LocationURL

\* the visible file-manager windows behind the foreground window that the
\* shell collection lists
Background ==
    {h \in 1..Len(wins) :
        h # fg /\ wins[h].visible /\ FileManagerClass(wins[h]) /\ HasEntry(h)}

FirstBackground == CHOOSE h \in Background : \A k \in Background : h <= k

\* the directory a location URL shows
Shown(url) ==
    CASE url = UrlSpaced -> <<"C:", "\\", "d", " ", "d">>
      [] url = UrlPlain -> <<"C:", "\\", "d">>
      [] OTHER -> <<>>

DesktopDir == <<"C:", "\\", "u", "\\", "Desktop">>

ForegroundIsFileManager == wins[fg].exe = ExplorerExe

\* C6: when the foreground window belongs to another process than the file
\* manager, some visible file-manager window in the background has an entry
\* in the shell collection, and no platform call fails, get_explorer_path
\* returns the location of the first such window in enumeration order, and
\* get_current_path returns it, not the desktop, when it is a directory.
C6_BackgroundWindow ==
    (/\ Returned
     /\ failAt = "none"
     /\ ~ForegroundIsFileManager
     /\ Background # {})
    => (/\ explorerPath = [some |-> TRUE, path |-> Shown(EntryUrl(FirstBackground))]
        /\ Path(Shown(EntryUrl(FirstBackground))) \in dirs
             => (/\ currentPath = Shown(EntryUrl(FirstBackground))
                 /\ currentPath # DesktopDir))

\* a hidden file-manager window was passed over for the visible one behind it
C6_Witness ==
    /\ Returned
    /\ failAt = "none"
    /\ ~ForegroundIsFileManager
    /\ Background # {}
    /\ \E h \in 1..Len(wins) :
          h < FirstBackground /\ FileManagerClass(wins[h]) /\ ~wins[h].visible
    /\ currentPath = <<"C:", "\\", "d">>

\* C7: with no file-manager window open get_explorer_path returns None; and
\* get_current_path returns the resolver's path exactly when it is present,
\* not empty and an existing directory, and the desktop directory (home
\* joined with 'Desktop') in every other case.
C7_Default ==
    Returned =>
        /\ (\A h \in 1..Len(wins) : ~FileManagerClass(wins[h]))
              => explorerPath = [some |-> FALSE, path |-> <<>>]
        /\ currentPath =
              IF /\ explorerPath.some
                 /\ explorerPath.path # <<>>
                 /\ Path(explorerPath.path) \in dirs
              THEN explorerPath.path
              ELSE DesktopDir

\* no file-manager window, no failure: nothing resolved, the desktop returned
C7_Witness ==
    /\ Returned
    /\ failAt = "none"
    /\ \A h \in 1..Len(wins) : ~FileManagerClass(wins[h])
    /\ ~explorerPath.some
    /\ currentPath = DesktopDir

\* C9 as stated: when the foreground-window step raises while a background
\* file-manager window with a location exists, get_explorer_path still
\* returns that window's location.
C9_FallsThrough ==
    (/\ Returned
     /\ failAt = "foreground"
     /\ Background # {})
    => explorerPath = [some |-> TRUE, path |-> Shown(EntryUrl(FirstBackground))]

\* C9 amended: a failure of a platform call that the run reaches ends the
\* resolution: get_explorer_path returns None without trying any later step
\* (also when a background file-manager window has a location), and
\* get_current_path returns the desktop directory.
C9_FailureEndsResolution ==
    (/\ Returned
     /\ \/ failAt = "foreground"
        \/ failAt = "shell_fg" /\ ForegroundIsFileManager
        \/ failAt = "enum" /\ ~ForegroundIsFileManager
        \/ /\ failAt = "shell_bg"
           /\ ~ForegroundIsFileManager
           /\ \E h \in 1..Len(wins) : wins[h].visible /\ FileManagerClass(wins[h]))
    => (/\ explorerPath = [some |-> FALSE, path |-> <<>>]
        /\ currentPath = DesktopDir)

\* the foreground step raised with a background window showing an existing
\* directory, and the desktop was returned
C9_Witness ==
    /\ Returned
    /\ failAt = "foreground"
    /\ Background # {}
    /\ Path(Shown(EntryUrl(FirstBackground))) \in dirs
    /\ ~explorerPath.some
    /\ currentPath = DesktopDir

-----------------------------------------------------------------------------
(* Claims about an activation (SpecApp) *)

PromptOpen(t) == threads[t].pc \in {"prompt", "resolved"}

\* C8 as stated: at most one prompt/creation sequence is active at any
\* time, under every interleaving of on_hotkey calls with the prompt
\* thread, overlapping calls included.
C8_OnePrompt == \A t, u \in Tids : (PromptOpen(t) /\ PromptOpen(u)) => t = u

\* C10 as stated: whenever create_item is about to be invoked with the
\* value get_current_path returned, that value is an existing directory.
C10_BaseIsDirectory ==
    \A t \in Tids :
        threads[t].pc = "resolved" => Path(threads[t].current_path) \in dirs


\* a name that fails validation: empty, empty after trimming the surrounding
\* whitespace, or holding a reserved character
ValidationFailure(n) == n = <<>> \/ Strip(n) = <<>> \/ ReservedAt(n) # {}

\* C11: an _on_enter that read a name failing validation (empty, empty after
\* trimming, or holding a reserved character) ended without any filesystem
\* call: neither the isdir test of get_current_path nor an existence test or
\* a creation in create_item was made for that name.
C11_NoFilesystemAccess ==
    (entered.done /\ ValidationFailure(entered.name)) => entered.access = {}

\* the part of C11 that the code keeps: a name failing validation never
\* reaches the existence test or a creation of create_item
C11_NoCreateItemAccess ==
    (entered.done /\ ValidationFailure(entered.name))
        => entered.access \cap {"exists", "create"} = {}

====
